---------------------------- MODULE Spec2Model ----------------------------
(***************************************************************************)
(* pullmaster-ai: the pull-request data aggregation pipeline.              *)
(*                                                                         *)
(*   GitHubService (services/github.js)  parseRepoString, the four        *)
(*       top-level fetches, getFileContent and analyzePR;                  *)
(*   analyze (commands/analyze.js)       filterFiles, prepareAIData and    *)
(*       the analyze command handler;                                      *)
(*   validate (commands/validate.js)     the configuration checks.         *)
(*                                                                         *)
(* JavaScript values that may be undefined are tagged records, so that     *)
(* the truthiness and type tests of the code are tests of the model.       *)
(* Strings (repository strings, file names, patterns) are sequences of     *)
(* one-character strings.                                                  *)
(***************************************************************************)
EXTENDS Integers, Sequences, FiniteSets

VARIABLES
    repoString,       \* the <repo> argument handed to analyze / GitHubService
    config,           \* the configuration object loadConfig returned
    top,              \* per top-level API method: the state of its promise
    sent,             \* the requests handed to octokit so far
    content,          \* per (file index, side): the state of getFileContent
    outcome,          \* the promise analyzePR returned
    results,          \* what the analyze handler produced (or how it ended)
    cancelRequested,  \* the surrounding process asked for cancellation
    flt,              \* filterFiles applied to a drawn input (SpecFilter)
    rv,               \* prepareAIData's reviewers for a drawn review list
    fc                \* findConfig's walk on a drawn directory tree

vars == <<repoString, config, top, sent, content, outcome, results,
          cancelRequested, flt, rv, fc>>

---------------------------------------------------------------------------
(* Bounds of the model.                                                    *)

\* longest repository string drawn for parseRepoString
MaxRepoLen == 4
\* most changed files the provider answers with in an aggregation run
MaxChangedFiles == 2
\* longest file list handed to filterFiles
MaxFilterFiles == 3
\* largest analysis.maxFiles drawn
MaxMaxFiles == 3
\* most exclusion patterns in analysis.excludePaths
MaxPatterns == 2
\* longest review list
MaxReviews == 4

---------------------------------------------------------------------------
(* JavaScript values.                                                      *)

Undefined == [t |-> "undefined"]
Null == [t |-> "null"]
Str(s) == [t |-> "string", v |-> s]
Num(n) == [t |-> "number", v |-> n]
Arr(a) == [t |-> "array", v |-> a]

\* ToBoolean: undefined, null, 0 and "" are falsy; arrays are truthy
Truthy(x) ==
    CASE x.t = "undefined" -> FALSE
      [] x.t = "null" -> FALSE
      [] x.t = "number" -> x.v # 0
      [] x.t = "string" -> Len(x.v) > 0
      [] OTHER -> TRUE

\* how a call ends: the value it returns, or the error it throws
Return(v) == [t |-> "return", v |-> v]
Throw(e) == [t |-> "throw", v |-> e]

Min(a, b) == IF a < b THEN a ELSE b
Max(a, b) == IF a > b THEN a ELSE b

\* all sequences over S of length at most n
SeqsUpTo(S, n) == UNION {[1..k -> S] : k \in 0..n}

\* all sequences over S of length at most n without a repeated element
DistinctSeqsUpTo(S, n) ==
    {s \in SeqsUpTo(S, n) : \A i, j \in 1..Len(s) : s[i] = s[j] => i = j}

RECURSIVE SumOver(_, _)
\* Array.prototype.reduce((sum, x) => sum + f(x), 0)
SumOver(s, field) ==
    IF s = <<>> THEN 0
    ELSE s[1][field] + SumOver(Tail(s), field)

---------------------------------------------------------------------------
(* Regular expressions: new RegExp(p) and RegExp.prototype.test, for the    *)
(* patterns written with literal characters, ".", "*", "^", "$" and "\".   *)

SyntaxError == [kind |-> "SyntaxError"]
TypeError == [kind |-> "TypeError"]

IsError(x) == "kind" \in DOMAIN x

RECURSIVE ParsePattern(_, _, _)
\* the atoms of pattern p from position i on, after the atoms acc; a "*" with
\* nothing to repeat and a "\" at the end of the pattern are syntax errors
ParsePattern(p, i, acc) ==
    IF i > Len(p) THEN [atoms |-> acc]
    ELSE LET c == p[i] IN
         CASE c = "*" -> SyntaxError
           [] c = "^" -> ParsePattern(p, i + 1, Append(acc, [k |-> "bol", ch |-> "", star |-> FALSE]))
           [] c = "$" -> ParsePattern(p, i + 1, Append(acc, [k |-> "eol", ch |-> "", star |-> FALSE]))
           [] c = "\\" /\ i = Len(p) -> SyntaxError
           [] OTHER ->
                LET esc  == c = "\\"
                    atom == IF esc THEN [k |-> "lit", ch |-> p[i + 1]]
                            ELSE IF c = "." THEN [k |-> "any", ch |-> ""]
                            ELSE [k |-> "lit", ch |-> c]
                    nxt  == IF esc THEN i + 2 ELSE i + 1
                    star == nxt <= Len(p) /\ p[nxt] = "*"
                IN  ParsePattern(p, IF star THEN nxt + 1 ELSE nxt,
                        Append(acc, [k |-> atom.k, ch |-> atom.ch, star |-> star]))

\* new RegExp(p): a compiled pattern, or the SyntaxError it throws
NewRegExp(p) == ParsePattern(p, 1, <<>>)

AtomMatches(a, c) == a.k = "any" \/ (a.k = "lit" /\ a.ch = c)

RECURSIVE MatchFrom(_, _, _, _)
\* atoms k.. of the pattern match s starting after its first i characters
MatchFrom(atoms, k, s, i) ==
    IF k > Len(atoms) THEN TRUE
    ELSE LET a == atoms[k] IN
         CASE a.k = "bol" -> i = 0 /\ MatchFrom(atoms, k + 1, s, i)
           [] a.k = "eol" -> i = Len(s) /\ MatchFrom(atoms, k + 1, s, i)
           [] a.star ->
                \E j \in i..Len(s) :
                    /\ \A m \in (i + 1)..j : AtomMatches(a, s[m])
                    /\ MatchFrom(atoms, k + 1, s, j)
           [] OTHER ->
                /\ i < Len(s)
                /\ AtomMatches(a, s[i + 1])
                /\ MatchFrom(atoms, k + 1, s, i + 1)

\* pattern.test(s): the pattern matches somewhere in s
RegExpTest(re, s) == \E i \in 0..Len(s) : MatchFrom(re.atoms, 1, s, i)

---------------------------------------------------------------------------
(* filterFiles (commands/analyze.js).                                      *)

\* slice with its start off by one: slice(start + 1, end)
ArraySliceFromOne(s, start, end) ==
    LET e == IF end < 0 THEN Max(Len(s) + end, 0) ELSE Min(end, Len(s))
    IN  SubSeq(s, start + 2, e)

\* Array.prototype.slice(start, end) for integers start >= 0 and any end
ArraySlice(s, start, end) ==
    LET e == IF end < 0 THEN Max(Len(s) + end, 0) ELSE Min(end, Len(s))
    IN  SubSeq(s, start + 1, e)

\* config.analysis?.maxFiles and config.analysis?.excludePaths
AnalysisField(cfg, f) ==
    IF cfg.analysis.t = "undefined" THEN Undefined ELSE cfg.analysis.v[f]

\* the "Apply max files limit" step
ApplyMaxFiles(files, cfg) ==
    LET maxFiles == AnalysisField(cfg, "maxFiles")
    IN  IF Truthy(maxFiles) THEN ArraySlice(files, 0, maxFiles.v) ELSE files

\* config.analysis?.excludePaths?.length is truthy
HasExcludePaths(cfg) ==
    LET ex == AnalysisField(cfg, "excludePaths")
    IN  ex.t \in {"array", "string"} /\ Len(ex.v) > 0

\* the "Apply exclusion patterns" step: the list returned, or the error thrown
ApplyExclusions(files, cfg) ==
    LET ex == AnalysisField(cfg, "excludePaths") IN
    IF ~HasExcludePaths(cfg) THEN Return(files)
    ELSE IF ex.t # "array" THEN Throw(TypeError)   \* a string has no map method
    ELSE LET patterns == [i \in 1..Len(ex.v) |-> NewRegExp(ex.v[i])] IN
         IF \E i \in 1..Len(patterns) : IsError(patterns[i]) THEN Throw(SyntaxError)
         ELSE Return(SelectSeq(files,
                LAMBDA file : ~\E i \in 1..Len(patterns) :
                                  RegExpTest(patterns[i], file.filename)))

\* the two steps in the other order: exclude first, truncate second
filterFilesExcludeFirst(files, cfg) ==
    LET r == ApplyExclusions(files, cfg)
    IN  IF r.t = "throw" THEN r ELSE Return(ApplyMaxFiles(r.v, cfg))

\* filterFiles(files, config): the filtered list returned, or the error thrown
filterFiles(files, cfg) == ApplyExclusions(ApplyMaxFiles(files, cfg), cfg)

---------------------------------------------------------------------------
(* validate (commands/validate.js): the analysis checks.                   *)

\* Number.isInteger, of the values drawn: the numbers drawn are integers
IsInteger(x) == x.t = "number"

\* config.github?.token
GithubToken(cfg) ==
    IF cfg.github.t = "undefined" THEN Undefined ELSE cfg.github.v.token

\* the issues validate pushes
Issues(cfg) ==
    (IF ~Truthy(GithubToken(cfg)) THEN {"GitHub token is missing"} ELSE {})
    \cup
    (IF ~Truthy(cfg.analysis) THEN {}
     ELSE LET a == cfg.analysis.v IN
          (IF a.maxFiles.t # "undefined" /\ (~IsInteger(a.maxFiles) \/ a.maxFiles.v < 1)
           THEN {"analysis.maxFiles must be a positive integer"} ELSE {})
          \cup
          (IF Truthy(a.excludePaths) /\ a.excludePaths.t # "array"
           THEN {"analysis.excludePaths must be an array"} ELSE {})
          \cup
          (IF Truthy(a.aiModel) /\ a.aiModel.t # "string"
           THEN {"analysis.aiModel must be a string"} ELSE {}))

\* validate(): issues.length === 0
validate(cfg) == Issues(cfg) = {}

---------------------------------------------------------------------------
(* parseRepoString (services/github.js).                                   *)

InvalidReference == [kind |-> "InvalidReference"]

RECURSIVE SplitFrom(_, _, _, _)
\* String.prototype.split(sep): the parts of s from position i on, cur being
\* the part read so far
SplitFrom(s, sep, i, cur) ==
    IF i > Len(s) THEN <<cur>>
    ELSE IF s[i] = sep THEN <<cur>> \o SplitFrom(s, sep, i + 1, <<>>)
    ELSE SplitFrom(s, sep, i + 1, Append(cur, s[i]))

Split(s, sep) == SplitFrom(s, sep, 1, <<>>)

\* array destructuring: the element at (0-based) index i, or undefined
ElementAt(a, i) == IF i + 1 <= Len(a) THEN Str(a[i + 1]) ELSE Undefined

\* parseRepoString(repoString): {owner, repo}, or the error thrown
parseRepoString(s) ==
    LET parts == Split(s, "/")
        owner == ElementAt(parts, 0)
        repo  == ElementAt(parts, 1)
    IN  IF ~Truthy(owner) \/ ~Truthy(repo) THEN InvalidReference
        ELSE [owner |-> owner.v, repo |-> repo.v]

---------------------------------------------------------------------------
(* prepareAIData (commands/analyze.js): the metadata it derives.           *)

\* a plain copy of the list: [...s], no Set in between
SpreadKeepAll(s, acc) == acc \o s

RECURSIVE SetSpread(_, _)
\* [...new Set(s)]: the elements of s, each at its first occurrence, after acc
SetSpread(s, acc) ==
    IF s = <<>> THEN acc
    ELSE IF \E i \in 1..Len(acc) : acc[i] = s[1] THEN SetSpread(Tail(s), acc)
    ELSE SetSpread(Tail(s), Append(acc, s[1]))

\* prData.reviews.map((r) => r.user.login), then the distinct handles
Reviewers(reviews) == SetSpread([i \in 1..Len(reviews) |-> reviews[i].user.login], <<>>)

\* prData.files.map((f) => f.filename)
ChangedFiles(files) == [i \in 1..Len(files) |-> files[i].filename]

---------------------------------------------------------------------------
(* The inputs drawn: file entries, patterns, configurations, reviews.      *)

A_TXT == <<"a", ".", "t", "x", "t">>
B_LOG == <<"b", ".", "l", "o", "g">>
C_TXT == <<"c", ".", "t", "x", "t">>
D_MD == <<"d", ".", "m", "d">>

\* an entry of the provider's changed-file list
FileEntry(name, add, del) ==
    [filename |-> name, status |-> "modified", additions |-> add, deletions |-> del]

\* the changed files a provider may list, in provider order
Catalog ==
    <<FileEntry(A_TXT, 1, 0), FileEntry(B_LOG, 2, 1),
      FileEntry(C_TXT, 4, 2), FileEntry(D_MD, 8, 4)>>

CatalogSet == {Catalog[i] : i \in 1..Len(Catalog)}

\* ".*\.log$", "^a", "txt", and the glob "*.log", which is no regular expression
ExcludeLog == <<".", "*", "\\", ".", "l", "o", "g", "$">>
StartsWithA == <<"^", "a">>
ContainsTxt == <<"t", "x", "t">>
GlobLog == <<"*", ".", "l", "o", "g">>

PatternSet == {ExcludeLog, StartsWithA, ContainsTxt, GlobLog}

\* what a configuration file may hold as analysis.maxFiles
MaxFilesValues == {Undefined} \cup {Num(n) : n \in (-1)..MaxMaxFiles}

\* what a configuration file may hold as analysis.excludePaths
ExcludePathsValues ==
    {Undefined, Str(<<".", "l", "o", "g">>)}
    \cup {Arr(a) : a \in SeqsUpTo(PatternSet, MaxPatterns)}

\* what a configuration file may hold as analysis.aiModel: unset, "gpt-4", 4
AiModelValues == {Undefined, Str(<<"g", "p", "t", "-", "4">>), Num(4)}

Analysis(m, e, ai) ==
    [t |-> "object", v |-> [maxFiles |-> m, excludePaths |-> e, aiModel |-> ai]]

Github(token) == [t |-> "object", v |-> [token |-> token]]

WithToken == Github(Str(<<"t", "o", "k">>))

\* what a configuration file may hold as github
GithubValues == {Undefined, WithToken}

\* the configuration objects JSON.parse may return
RawConfigs ==
    {[github |-> g, analysis |-> Undefined] : g \in GithubValues}
    \cup {[github |-> g, analysis |-> Analysis(m, e, ai)] :
             g \in GithubValues, m \in MaxFilesValues, e \in ExcludePathsValues,
             ai \in AiModelValues}

Handles == {"alice", "bob", "carol"}

Review(h) == [user |-> [login |-> h], state |-> "APPROVED"]

NotYet == [t |-> "pending"]

IdleFlt == [phase |-> "idle"]
IdleRv == [phase |-> "idle"]
IdleFc == [phase |-> "idle"]
IdleOutcome == [st |-> "idle"]
IdleResults == [st |-> "idle"]
\* a configuration with a token and no analysis section
NoConfig == [github |-> WithToken, analysis |-> Undefined]

---------------------------------------------------------------------------
(* SpecFilter: validate and filterFiles on a drawn configuration and file  *)
(* list.                                                                   *)

InitFilter ==
    /\ config \in RawConfigs
    /\ \E f \in DistinctSeqsUpTo(CatalogSet, MaxFilterFiles) :
          flt = [phase |-> "loaded", files |-> f, accepted |-> FALSE,
                 once |-> NotYet, twice |-> NotYet]
    /\ repoString = <<>>
    /\ top = <<>>
    /\ sent = {}
    /\ content = <<>>
    /\ outcome = IdleOutcome
    /\ results = IdleResults
    /\ cancelRequested = FALSE
    /\ rv = IdleRv
    /\ fc = IdleFc

\* the validate command on the loaded configuration
FilterValidate ==
    /\ flt.phase = "loaded"
    /\ flt' = [flt EXCEPT !.phase = "validated", !.accepted = validate(config)]
    /\ UNCHANGED <<repoString, config, top, sent, content, outcome, results,
                   cancelRequested, rv, fc>>

\* prData.files = filterFiles(prData.files, config)
FilterApply ==
    /\ flt.phase = "validated"
    /\ flt' = [flt EXCEPT !.phase = "filtered",
                          !.once = filterFiles(flt.files, config)]
    /\ UNCHANGED <<repoString, config, top, sent, content, outcome, results,
                   cancelRequested, rv, fc>>

\* the same filter applied to its own result
FilterApplyAgain ==
    /\ flt.phase = "filtered"
    /\ flt.once.t = "return"
    /\ flt' = [flt EXCEPT !.phase = "refiltered",
                          !.twice = filterFiles(flt.once.v, config)]
    /\ UNCHANGED <<repoString, config, top, sent, content, outcome, results,
                   cancelRequested, rv, fc>>

NextFilter == FilterValidate \/ FilterApply \/ FilterApplyAgain

SpecFilter == InitFilter /\ [][NextFilter]_vars

---------------------------------------------------------------------------
(* SpecReviewers: prepareAIData's reviewers on a drawn review list.        *)

InitReviewers ==
    /\ \E r \in SeqsUpTo({Review(h) : h \in Handles}, MaxReviews) :
          rv = [phase |-> "fetched", reviews |-> r, reviewers |-> <<>>]
    /\ repoString = <<>>
    /\ config = NoConfig
    /\ top = <<>>
    /\ sent = {}
    /\ content = <<>>
    /\ outcome = IdleOutcome
    /\ results = IdleResults
    /\ cancelRequested = FALSE
    /\ flt = IdleFlt
    /\ fc = IdleFc

PrepareReviewers ==
    /\ rv.phase = "fetched"
    /\ rv' = [rv EXCEPT !.phase = "prepared", !.reviewers = Reviewers(rv.reviews)]
    /\ UNCHANGED <<repoString, config, top, sent, content, outcome, results,
                   cancelRequested, flt, fc>>

NextReviewers == PrepareReviewers

SpecReviewers == InitReviewers /\ [][NextReviewers]_vars

---------------------------------------------------------------------------
(* Promises and the provider (services/github.js).                         *)

Pending == [st |-> "pending"]
Fulfilled(v) == [st |-> "fulfilled", v |-> v]
Rejected(e) == [st |-> "rejected", v |-> e]

\* a rejection always replaces the state, also of a promise already settled
PromiseAllLatestWins(cur, settled, members, values) ==
    IF settled.st = "rejected" THEN Rejected(settled.v)
    ELSE IF cur.st # "pending" THEN cur
    ELSE IF \A m \in members : m.st = "fulfilled" THEN Fulfilled(values)
    ELSE cur

\* Promise.all: the state of the joined promise cur once its member `settled`
\* has settled, members being the states of all members now: the first
\* rejection rejects it with that error, the last fulfilment fulfils it with
\* values, and once settled it never changes
PromiseAll(cur, settled, members, values) ==
    IF cur.st # "pending" THEN cur
    ELSE IF settled.st = "rejected" THEN Rejected(settled.v)
    ELSE IF \A m \in members : m.st = "fulfilled" THEN Fulfilled(values)
    ELSE cur

TopApis ==
    {"getPullRequest", "getPullRequestFiles", "getPullRequestCommits",
     "getPullRequestReviews"}

ApiMethods == TopApis \cup {"getFileContent"}

\* an API method up to its await: parseRepoString, then the octokit request;
\* the promise it returns and the requests it handed to octokit
ApiCall(api, s, path, ref) ==
    LET parsed == parseRepoString(s) IN
    IF IsError(parsed) THEN [promise |-> Rejected(parsed), requests |-> {}]
    ELSE [promise |-> Pending,
          requests |-> {[api |-> api, owner |-> parsed.owner, repo |-> parsed.repo,
                         path |-> path, ref |-> ref]}]

HttpError(kind, status) == [kind |-> kind, status |-> status]
NotFound == HttpError("NotFound", 404)
Unauthorized == HttpError("Unauthorized", 401)
RateLimited == HttpError("RateLimited", 403)

Answer(data) == [ok |-> TRUE, data |-> data]
Failure(e) == [ok |-> FALSE, error |-> e]

PullRequestData ==
    [title |-> "Add feature", body |-> "", user |-> [login |-> "alice"],
     base |-> [ref |-> "main", sha |-> "base-sha"],
     head |-> [ref |-> "feature", sha |-> "head-sha"]]

CommitData(m) ==
    [commit |-> [message |-> m, author |-> [name |-> "alice", date |-> "2024-01-01"]]]

\* what the provider may answer to a top-level request
TopResponses(api) ==
    (CASE api = "getPullRequest" -> {Answer(PullRequestData)}
       [] api = "getPullRequestFiles" ->
            {Answer(SubSeq(Catalog, 1, n)) : n \in 0..MaxChangedFiles}
       [] api = "getPullRequestCommits" ->
            {Answer(<<CommitData("first"), CommitData("second")>>)}
       [] api = "getPullRequestReviews" ->
            {Answer(<<Review("alice"), Review("bob"), Review("alice")>>)})
    \cup {Failure(NotFound), Failure(Unauthorized)}

\* the base64 content the provider holds for a path at a reference
Blob(path, ref) == [encoding |-> "base64", of |-> <<path, ref>>]

\* Buffer.from(content, 'base64').toString('utf8')
DecodeBase64(blob) == [t |-> "string", text |-> blob.of]

\* what the provider may answer to a content request
ContentResponses(path, ref) ==
    {Answer([content |-> Blob(path, ref)])}
    \cup {Failure(NotFound), Failure(Unauthorized), Failure(RateLimited)}

\* getFileContent with no 404 case: every failure is rethrown
GetFileContentRethrowAll(resp) ==
    IF resp.ok THEN Fulfilled(DecodeBase64(resp.data.content))
    ELSE Rejected(resp.error)

\* getFileContent after its await: the decoded content, null on a 404, and
\* any other error rethrown as it is
GetFileContentSettle(resp) ==
    IF resp.ok THEN Fulfilled(DecodeBase64(resp.data.content))
    ELSE IF resp.error.status = 404 THEN Fulfilled(Null)
    ELSE Rejected(resp.error)

\* the object analyzePR returns
BuildRecord(pr, files, fileContents, commits, reviews) ==
    [pullRequest |-> pr,
     files |-> fileContents,
     commits |-> commits,
     reviews |-> reviews,
     metadata |-> [totalCommits |-> Len(commits),
                   totalFiles |-> Len(files),
                   additions |-> SumOver(files, "additions"),
                   deletions |-> SumOver(files, "deletions"),
                   totalReviews |-> Len(reviews)]]

\* {...file, baseContent, headContent}
WithContents(file, baseContent, headContent) ==
    [filename |-> file.filename, status |-> file.status,
     additions |-> file.additions, deletions |-> file.deletions,
     baseContent |-> baseContent, headContent |-> headContent]

\* prepareAIData(prData)
prepareAIData(prData) ==
    [pullRequest |-> [title |-> prData.pullRequest.title,
                      description |-> prData.pullRequest.body,
                      author |-> prData.pullRequest.user.login,
                      baseBranch |-> prData.pullRequest.base.ref,
                      headBranch |-> prData.pullRequest.head.ref],
     changes |-> [i \in 1..Len(prData.files) |->
                    [filename |-> prData.files[i].filename,
                     status |-> prData.files[i].status,
                     additions |-> prData.files[i].additions,
                     deletions |-> prData.files[i].deletions,
                     previousContent |-> prData.files[i].baseContent,
                     newContent |-> prData.files[i].headContent]],
     commits |-> [i \in 1..Len(prData.commits) |->
                    [message |-> prData.commits[i].commit.message,
                     author |-> prData.commits[i].commit.author.name,
                     date |-> prData.commits[i].commit.author.date]],
     metadata |-> [totalCommits |-> prData.metadata.totalCommits,
                   totalFiles |-> prData.metadata.totalFiles,
                   additions |-> prData.metadata.additions,
                   deletions |-> prData.metadata.deletions,
                   totalReviews |-> prData.metadata.totalReviews,
                   changedFiles |-> ChangedFiles(prData.files),
                   reviewers |-> Reviewers(prData.reviews)]]

---------------------------------------------------------------------------
(* SpecParse: each API method called with a drawn repository string.       *)

RepoAlphabet == {"o", "r", "/"}

InitParse ==
    /\ repoString \in SeqsUpTo(RepoAlphabet, MaxRepoLen)
    /\ top = [a \in ApiMethods |-> IdleOutcome]
    /\ sent = {}
    /\ config = NoConfig
    /\ content = <<>>
    /\ outcome = IdleOutcome
    /\ results = IdleResults
    /\ cancelRequested = FALSE
    /\ flt = IdleFlt
    /\ rv = IdleRv
    /\ fc = IdleFc

\* one call of an API method, up to its await
Call(api, path, ref) ==
    /\ top[api].st = "idle"
    /\ LET call == ApiCall(api, repoString, path, ref) IN
        /\ top' = [top EXCEPT ![api] = call.promise]
        /\ sent' = sent \cup call.requests
    /\ UNCHANGED <<repoString, config, content, outcome, results,
                   cancelRequested, flt, rv, fc>>

GetPullRequest == Call("getPullRequest", <<>>, "")
GetPullRequestFiles == Call("getPullRequestFiles", <<>>, "")
GetPullRequestCommits == Call("getPullRequestCommits", <<>>, "")
GetPullRequestReviews == Call("getPullRequestReviews", <<>>, "")
GetFileContent == Call("getFileContent", A_TXT, "head-sha")

NextParse ==
    \/ GetPullRequest
    \/ GetPullRequestFiles
    \/ GetPullRequestCommits
    \/ GetPullRequestReviews
    \/ GetFileContent

SpecParse == InitParse /\ [][NextParse]_vars

---------------------------------------------------------------------------
(* Spec: one run of the analyze command: analyzePR, then filtering and     *)
(* prepareAIData. Init is the state after loadConfig and                   *)
(* GitHubService.initialize have returned. commands/analyze.js holds two   *)
(* definitions of analyze; the one modelled is the one that produces the   *)
(* report (filterFiles, prepareAIData, results), not the prompt dump.      *)

O_R == <<"o", "/", "r">>
NoSlash == <<"o", "r">>

\* the configurations of the runs
RunConfigs ==
    {NoConfig,
     [github |-> WithToken, analysis |-> Analysis(Num(1), Undefined, Undefined)],
     [github |-> WithToken, analysis |-> Analysis(Undefined, Arr(<<ExcludeLog>>), Undefined)],
     [github |-> WithToken, analysis |-> Analysis(Undefined, Arr(<<GlobLog>>), Undefined)]}

Init ==
    /\ repoString \in {O_R, NoSlash}
    /\ config \in RunConfigs
    /\ top = [a \in TopApis |-> IdleOutcome]
    /\ sent = {}
    /\ content = <<>>
    /\ outcome = IdleOutcome
    /\ results = [st |-> "running"]
    /\ cancelRequested = FALSE
    /\ flt = IdleFlt
    /\ rv = IdleRv
    /\ fc = IdleFc

Sides == {"base", "head"}

\* a getFileContent call: the provider's answer (none yet) and its promise
ContentCall(promise) == [resp |-> NotYet, p |-> promise]

\* both sides fetched at the head reference
RefOfAlwaysHead(pr, side) == pr.head.sha

\* the reference a side of a file is fetched at
RefOf(pr, side) == IF side = "base" THEN pr.base.sha ELSE pr.head.sha

\* the two getFileContent calls files.map's callback makes for a file
ContentCallsOf(pr, file) ==
    [side \in Sides |-> ApiCall("getFileContent", repoString, file.filename, RefOf(pr, side))]

\* files.map(async (file) => ...) up to the awaits: per file the two
\* getFileContent calls and the promise of the callback
StartContent(pr, files) ==
    [i \in 1..Len(files) |->
        LET calls == ContentCallsOf(pr, files[i])
        IN  [base |-> ContentCall(calls["base"].promise),
             head |-> ContentCall(calls["head"].promise),
             file |-> Pending]]

\* the requests those calls hand to octokit
ContentRequests(pr, files) ==
    UNION {ContentCallsOf(pr, files[i])[side].requests :
              i \in 1..Len(files), side \in Sides}

\* the contents joined to the wrong entry: entry i gets those of the file at
\* the mirrored position
FileContentsMirrored(files, calls) ==
    [i \in 1..Len(files) |->
        WithContents(files[i], calls[Len(files) + 1 - i].base.p.v,
                     calls[Len(files) + 1 - i].head.p.v)]

\* the merged file entries, once every callback has fulfilled
FileContents(files, calls) ==
    [i \in 1..Len(files) |-> WithContents(files[i], calls[i].base.p.v, calls[i].head.p.v)]

\* analyzePR after its first await: the content fan-out, or the record at once
\* when there is no file (Promise.all of an empty array is fulfilled)
AfterTopFetches(t) ==
    LET pr      == t["getPullRequest"].v
        files   == t["getPullRequestFiles"].v
        commits == t["getPullRequestCommits"].v
        reviews == t["getPullRequestReviews"].v
    IN  [content |-> StartContent(pr, files),
         requests |-> ContentRequests(pr, files),
         outcome |-> IF files = <<>>
                     THEN Fulfilled(BuildRecord(pr, files, <<>>, commits, reviews))
                     ELSE Pending]

\* analyze calls github.analyzePR: the four top-level calls, joined
AnalyzePR ==
    /\ results.st = "running"
    /\ outcome.st = "idle"
    /\ LET calls  == [a \in TopApis |-> ApiCall(a, repoString, <<>>, "")]
           failed == {a \in TopApis : calls[a].promise.st = "rejected"}
       IN  /\ top' = [a \in TopApis |-> calls[a].promise]
           /\ sent' = sent \cup UNION {calls[a].requests : a \in TopApis}
           /\ outcome' = IF failed = {} THEN Pending
                         ELSE PromiseAll(Pending, calls["getPullRequest"].promise,
                                         {calls[a].promise : a \in TopApis}, <<>>)
    /\ UNCHANGED <<repoString, config, content, results, cancelRequested, flt, rv, fc>>

\* the provider answers a top-level request
TopResponds(api) ==
    /\ results.st = "running"
    /\ top[api].st = "pending"
    /\ \E r \in TopResponses(api) :
        LET p      == IF r.ok THEN Fulfilled(r.data) ELSE Rejected(r.error)
            t      == [top EXCEPT ![api] = p]
            joined == PromiseAll(outcome, p, {t[a] : a \in TopApis}, <<>>)
        IN  /\ top' = t
            /\ IF outcome.st = "pending" /\ joined.st = "fulfilled"
               THEN LET next == AfterTopFetches(t) IN
                    /\ content' = next.content
                    /\ sent' = sent \cup next.requests
                    /\ outcome' = next.outcome
               ELSE /\ outcome' = joined
                    /\ UNCHANGED <<content, sent>>
    /\ UNCHANGED <<repoString, config, results, cancelRequested, flt, rv, fc>>

\* the provider answers the content request of file i at a side
ContentResponds(i, side) ==
    /\ results.st = "running"
    /\ i \in 1..Len(content)
    /\ content[i][side].resp = NotYet
    /\ content[i][side].p.st = "pending"
    /\ LET pr      == top["getPullRequest"].v
           files   == top["getPullRequestFiles"].v
       IN  \E r \in ContentResponses(files[i].filename, RefOf(pr, side)) :
        LET p     == GetFileContentSettle(r)
            e1    == [content[i] EXCEPT ![side] = [resp |-> r, p |-> p]]
            inner == PromiseAll(content[i].file, p, {e1.base.p, e1.head.p}, <<>>)
            c     == [content EXCEPT ![i] = [e1 EXCEPT !.file = inner]]
            outer == IF inner.st = "pending" THEN outcome
                     ELSE PromiseAll(outcome, inner, {c[j].file : j \in 1..Len(c)}, <<>>)
        IN  /\ content' = c
            /\ outcome' = IF outcome.st = "pending" /\ outer.st = "fulfilled"
                          THEN Fulfilled(BuildRecord(pr, files, FileContents(files, c),
                                    top["getPullRequestCommits"].v,
                                    top["getPullRequestReviews"].v))
                          ELSE outer
    /\ UNCHANGED <<repoString, config, top, sent, results, cancelRequested, flt, rv, fc>>

\* analyze after analyzePR returned: filterFiles, prepareAIData, the results
\* handed to saveResults (whose file writes are left out); an error thrown on
\* the way is caught, reported, and the process exits with 1
AnalyzeContinue ==
    /\ results.st = "running"
    /\ outcome.st = "fulfilled"
    /\ LET filtered == filterFiles(outcome.v.files, config) IN
       results' = IF filtered.t = "throw"
                  THEN [st |-> "exit", code |-> 1, error |-> filtered.v]
                  ELSE [st |-> "saved",
                        v |-> prepareAIData([outcome.v EXCEPT !.files = filtered.v])]
    /\ UNCHANGED <<repoString, config, top, sent, content, outcome,
                   cancelRequested, flt, rv, fc>>

\* analyze's catch: the error is reported and the process exits with 1
AnalyzeCatch ==
    /\ results.st = "running"
    /\ outcome.st = "rejected"
    /\ results' = [st |-> "exit", code |-> 1, error |-> outcome.v]
    /\ UNCHANGED <<repoString, config, top, sent, content, outcome,
                   cancelRequested, flt, rv, fc>>

\* the surrounding process asks for cancellation during the run; analyzePR
\* takes no signal and reads none
RequestCancellation ==
    /\ results.st = "running"
    /\ outcome.st = "pending"
    /\ ~cancelRequested
    /\ cancelRequested' = TRUE
    /\ UNCHANGED <<repoString, config, top, sent, content, outcome, results,
                   flt, rv, fc>>

Next ==
    \/ AnalyzePR
    \/ \E api \in TopApis : TopResponds(api)
    \/ \E i \in 1..MaxChangedFiles, side \in Sides : ContentResponds(i, side)
    \/ AnalyzeContinue
    \/ AnalyzeCatch
    \/ RequestCancellation

Spec == Init /\ [][Next]_vars

---------------------------------------------------------------------------
(* SpecFindConfig: findConfig on a drawn directory tree.  A path is the    *)
(* sequence of its components below the filesystem root; the root is <<>>. *)

MaxDepth == 2
MaxMarkers == 2

CONFIG_FILENAME == ".pullmasterrc"

DirNames == {"home", "work"}

\* the directories of the tree
Dirs == SeqsUpTo(DirNames, MaxDepth)

\* os.homedir()
HomeDir == <<"home">>

\* path.dirname jumping to the root whatever the path
PathDirnameToRoot(p) == <<>>

\* path.dirname on an absolute path: the root is its own parent
PathDirname(p) == IF p = <<>> THEN <<>> ELSE SubSeq(p, 1, Len(p) - 1)

\* path.join(dir, name)
PathJoin(dir, name) == Append(dir, name)

\* fs.access(configPath) resolves iff the file exists
FsAccess(configPath, markers) ==
    \E d \in markers : PathJoin(d, CONFIG_FILENAME) = configPath

\* process.cwd() is any directory; the marker files are in any few of them
InitFindConfig ==
    /\ \E start \in Dirs, markers \in SUBSET Dirs :
          /\ Cardinality(markers) <= MaxMarkers
          /\ fc = [phase |-> "ready", startPath |-> start, markers |-> markers,
                   currentPath |-> <<>>, result |-> Undefined]
    /\ repoString = <<>>
    /\ config = NoConfig
    /\ top = <<>>
    /\ sent = {}
    /\ content = <<>>
    /\ outcome = IdleOutcome
    /\ results = IdleResults
    /\ cancelRequested = FALSE
    /\ flt = IdleFlt
    /\ rv = IdleRv

\* the call: let currentPath = startPath
FindConfig ==
    /\ fc.phase = "ready"
    /\ fc' = [fc EXCEPT !.phase = "loop", !.currentPath = fc.startPath]
    /\ UNCHANGED <<repoString, config, top, sent, content, outcome, results,
                   cancelRequested, flt, rv>>

\* an iteration whose fs.access resolves: return configPath
FindConfigFound ==
    /\ fc.phase = "loop"
    /\ LET configPath == PathJoin(fc.currentPath, CONFIG_FILENAME)
       IN  /\ FsAccess(configPath, fc.markers)
           /\ fc' = [fc EXCEPT !.phase = "returned", !.result = configPath]
    /\ UNCHANGED <<repoString, config, top, sent, content, outcome, results,
                   cancelRequested, flt, rv>>

\* an iteration whose fs.access rejects, with a parent to go to
FindConfigAscend ==
    /\ fc.phase = "loop"
    /\ LET configPath == PathJoin(fc.currentPath, CONFIG_FILENAME)
           parentPath == PathDirname(fc.currentPath)
       IN  /\ ~FsAccess(configPath, fc.markers)
           /\ parentPath # fc.currentPath
           /\ fc' = [fc EXCEPT !.currentPath = parentPath]
    /\ UNCHANGED <<repoString, config, top, sent, content, outcome, results,
                   cancelRequested, flt, rv>>

\* an iteration whose fs.access rejects at the root: return the home path
FindConfigFallback ==
    /\ fc.phase = "loop"
    /\ LET configPath == PathJoin(fc.currentPath, CONFIG_FILENAME)
           parentPath == PathDirname(fc.currentPath)
       IN  /\ ~FsAccess(configPath, fc.markers)
           /\ parentPath = fc.currentPath
           /\ fc' = [fc EXCEPT !.phase = "returned",
                               !.result = PathJoin(HomeDir, CONFIG_FILENAME)]
    /\ UNCHANGED <<repoString, config, top, sent, content, outcome, results,
                   cancelRequested, flt, rv>>

NextFindConfig ==
    \/ FindConfig
    \/ FindConfigFound
    \/ FindConfigAscend
    \/ FindConfigFallback

\* the loop's continuations are run by the event loop as soon as fs.access
\* settles
SpecFindConfig ==
    InitFindConfig /\ [][NextFindConfig]_vars /\ WF_vars(NextFindConfig)

---------------------------------------------------------------------------
(* Properties of the aggregation run (Spec).                               *)

TopFailed == \E a \in TopApis : top[a].st = "rejected"

\* no record, partial or whole, has been returned or handed on
NoRecord == outcome.st # "fulfilled" /\ results.st # "saved"

C1_FailedAsAWhole ==
    TopFailed =>
        /\ outcome.st = "rejected"
        /\ \E a \in TopApis : top[a].st = "rejected" /\ outcome.v = top[a].v
        /\ NoRecord
        /\ content = <<>>

C1_FirstErrorKept ==
    /\ (~TopFailed /\ TopFailed') =>
          \E a \in TopApis : top'[a].st = "rejected" /\ outcome' = Rejected(top'[a].v)
    /\ TopFailed => (outcome' = outcome /\ content' = content /\ sent' = sent)

\* C1: once one of the four top-level fetches has failed, analyzePR is
\* rejected with the error of the fetch that failed first, no record is
\* returned and no content is requested; the siblings that complete later,
\* in any order and with any result, change nothing of that.
C1_TopFetchFailureFailsRun == []C1_FailedAsAWhole /\ [][C1_FirstErrorKept]_vars

\* a fetch failed, then a sibling failed with another error and one succeeded
C1_Witness ==
    /\ outcome = Rejected(Unauthorized)
    /\ top["getPullRequestFiles"].st = "rejected"
    /\ top["getPullRequestFiles"].v = Unauthorized
    /\ top["getPullRequestReviews"].st = "rejected"
    /\ top["getPullRequestReviews"].v = NotFound
    /\ top["getPullRequest"].st = "fulfilled"
    /\ results.st = "running"

ContentSlots == {<<i, side>> : i \in 1..Len(content), side \in Sides}

SlotOf(x) == content[x[1]][x[2]]

Answered(x) == SlotOf(x).resp # NotYet

\* the provider answered the request with a failure other than a 404
FailedHard(x) ==
    Answered(x) /\ ~SlotOf(x).resp.ok /\ SlotOf(x).resp.error.status # 404

\* the provider answered the request with a 404
Absent(x) ==
    Answered(x) /\ ~SlotOf(x).resp.ok /\ SlotOf(x).resp.error.status = 404

ContentDone ==
    content # <<>> /\ \A x \in ContentSlots : Answered(x) /\ ~FailedHard(x)

\* the content of a side in the returned record
ContentInRecord(x) ==
    IF x[2] = "base" THEN outcome.v.files[x[1]].baseContent
    ELSE outcome.v.files[x[1]].headContent

\* a 404 is null for that side and no error, and the run succeeds with it
AbsentIsNull ==
    /\ \A x \in ContentSlots : Absent(x) => SlotOf(x).p = Fulfilled(Null)
    /\ ContentDone =>
          /\ outcome.st = "fulfilled"
          /\ \A x \in ContentSlots : Absent(x) <=> ContentInRecord(x) = Null

FetchedFileName(x) == top["getPullRequestFiles"].v[x[1]].filename

C3_MetadataMatchesFiles ==
    /\ outcome.st = "fulfilled" =>
          /\ outcome.v.metadata.totalFiles = Len(outcome.v.files)
          /\ outcome.v.metadata.additions = SumOver(outcome.v.files, "additions")
          /\ outcome.v.metadata.deletions = SumOver(outcome.v.files, "deletions")
    /\ results.st = "saved" =>
          /\ results.v.metadata.totalFiles = Len(results.v.changes)
          /\ results.v.metadata.additions = SumOver(results.v.changes, "additions")
          /\ results.v.metadata.deletions = SumOver(results.v.changes, "deletions")

\* the content requests in flight
ContentInFlight == Cardinality({x \in ContentSlots : ~Answered(x)})

\* a configured cap as large as the longest file list
ConfiguredCap == MaxChangedFiles

\* C4: at most ConfiguredCap content requests are in flight at any time.
C4_AtMostCapInFlight == ContentInFlight <= ConfiguredCap

Cancelled == [kind |-> "Cancelled"]

RequestsInFlight ==
    \/ \E a \in TopApis : top[a].st = "pending"
    \/ \E x \in ContentSlots : ~Answered(x)

\* C10: once cancellation was requested during a run, no request of the run
\* stays in flight, and the run ends rejected with Cancelled, never with a
\* record.
C10_CancelledRunReturnsCancelled ==
    cancelRequested =>
        /\ outcome.st # "fulfilled"
        /\ outcome.st = "rejected" => outcome.v = Cancelled
        /\ (results.st # "running") => ~RequestsInFlight

\* the content requests handed to octokit so far
ContentRequestsSent == {r \in sent : r.api = "getFileContent"}

MetadataAndFilesFetched ==
    top["getPullRequest"].st = "fulfilled" /\ top["getPullRequestFiles"].st = "fulfilled"

AllTopFetched == \A a \in TopApis : top[a].st = "fulfilled"

\* one request per file of the fetched list and side, at the SHA the fetched
\* metadata gives for that side
ExpectedContentRequests ==
    LET pr     == top["getPullRequest"].v
        files  == top["getPullRequestFiles"].v
        parsed == parseRepoString(repoString)
    IN  {[api |-> "getFileContent", owner |-> parsed.owner, repo |-> parsed.repo,
          path |-> files[i].filename, ref |-> pr.base.sha] : i \in 1..Len(files)}
        \cup
        {[api |-> "getFileContent", owner |-> parsed.owner, repo |-> parsed.repo,
          path |-> files[i].filename, ref |-> pr.head.sha] : i \in 1..Len(files)}

\* C11: no content request is issued before the metadata fetch and the
\* file-list fetch have succeeded (nor before the other two have); once the
\* four have, one base and one head request is issued for each file of the
\* fetched list, at the SHAs of the fetched metadata, and no other; after a
\* failed top-level fetch no content request is ever issued.
C11_ContentAfterTopFetches ==
    /\ ContentRequestsSent # {} => MetadataAndFilesFetched
    /\ TopFailed => (ContentRequestsSent = {} /\ content = <<>>)
    /\ ~AllTopFetched => (ContentRequestsSent = {} /\ content = <<>>)
    /\ AllTopFetched =>
          /\ ContentRequestsSent = ExpectedContentRequests
          /\ Len(content) = Len(top["getPullRequestFiles"].v)
          /\ Cardinality(ContentRequestsSent) = 2 * Len(content)

\* the four fetches succeeded with two files listed: four content requests
C11_Witness ==
    /\ AllTopFetched
    /\ Len(top["getPullRequestFiles"].v) = 2
    /\ Cardinality(ContentRequestsSent) = 4
    /\ ContentRequestsSent = ExpectedContentRequests

\* what the request for a file name at a reference resulted in: the decoded
\* content the provider holds for that name at that reference, or null
ResultOfRequest(x, name, ref) ==
    IF SlotOf(x).resp.ok THEN DecodeBase64(Blob(name, ref)) ELSE Null

\* C12: whatever the order in which the content requests completed, the
\* record analyzePR returns lists the files of the fetched list in the
\* provider's order, and only those, and the baseContent and headContent of
\* each are the results of the requests made for that file's own name at the
\* base and at the head reference.
C12_ContentsJoinedToTheirFile ==
    outcome.st = "fulfilled" =>
        LET listed == top["getPullRequestFiles"].v
            pr     == top["getPullRequest"].v
        IN  /\ ChangedFiles(outcome.v.files) = ChangedFiles(listed)
            /\ \A i \in 1..Len(listed) :
                  /\ outcome.v.files[i].baseContent =
                        ResultOfRequest(<<i, "base">>, listed[i].filename, pr.base.sha)
                  /\ outcome.v.files[i].headContent =
                        ResultOfRequest(<<i, "head">>, listed[i].filename, pr.head.sha)

\* a record of two files: the first absent at the base reference, the second
\* with both contents
C12_Witness ==
    /\ outcome.st = "fulfilled"
    /\ Len(outcome.v.files) = 2
    /\ outcome.v.files[1].baseContent = Null
    /\ outcome.v.files[1].headContent # Null
    /\ outcome.v.files[2].baseContent # Null
    /\ outcome.v.files[2].headContent # Null

---------------------------------------------------------------------------
(* Properties of filterFiles (SpecFilter).                                 *)

FilterApplied == flt.phase \in {"filtered", "refiltered"}

\* the configured exclusion patterns (none when excludePaths is unset)
ConfiguredPatterns(cfg) ==
    LET ex == AnalysisField(cfg, "excludePaths")
    IN  IF ex.t = "array" THEN {ex.v[i] : i \in 1..Len(ex.v)} ELSE {}

\* the file name matches one of the configured exclusion patterns
Excluded(name, cfg) ==
    \E p \in ConfiguredPatterns(cfg) : RegExpTest(NewRegExp(p), name)

\* the entries of files at the positions in idx, in the order of files
RestrictTo(files, idx) ==
    LET pos == SelectSeq([i \in 1..Len(files) |-> i], LAMBDA i : i \in idx)
    IN  [k \in 1..Len(pos) |-> files[pos[k]]]

\* the files among the first maxFiles entries (all when maxFiles is unset)
\* whose name matches no exclusion pattern
TruncatedThenExcluded(files, cfg) ==
    LET mf == AnalysisField(cfg, "maxFiles")
        n  == IF mf.t = "undefined" THEN Len(files) ELSE Min(mf.v, Len(files))
    IN  RestrictTo(files, {i \in 1..n : ~Excluded(files[i].filename, cfg)})

SpecExampleInput ==
    /\ ChangedFiles(flt.files) = <<A_TXT, B_LOG, C_TXT>>
    /\ AnalysisField(config, "maxFiles") = Num(2)
    /\ AnalysisField(config, "excludePaths") = Arr(<<ExcludeLog>>)

\* C5: for a configuration validate accepts, the list filterFiles returns is
\* exactly the files among the first maxFiles entries of its input (all of
\* them when maxFiles is unset) whose name matches no exclusion pattern, in
\* the input's order; [a.txt, b.log, c.txt] with maxFiles = 2 and the pattern
\* ".*\.log$" gives [a.txt].
C5_TruncateThenExclude ==
    (FilterApplied /\ flt.accepted /\ flt.once.t = "return") =>
        /\ flt.once.v = TruncatedThenExcluded(flt.files, config)
        /\ SpecExampleInput => ChangedFiles(flt.once.v) = <<A_TXT>>

\* the example of the specification has been filtered
C5_Witness ==
    /\ FilterApplied /\ flt.accepted /\ flt.once.t = "return"
    /\ SpecExampleInput
    /\ ChangedFiles(flt.once.v) = <<A_TXT>>

\* C6: for a configuration validate accepts, filtering the filtered list
\* again with the same configuration returns the same list.
C6_Idempotent ==
    (flt.phase = "refiltered" /\ flt.accepted) =>
        /\ flt.twice.t = "return"
        /\ flt.twice.v = flt.once.v

\* a second application after both steps removed something the first time
C6_Witness ==
    /\ flt.phase = "refiltered" /\ flt.accepted
    /\ Truthy(AnalysisField(config, "maxFiles"))
    /\ AnalysisField(config, "maxFiles").v < Len(flt.files)
    /\ 0 < Len(flt.once.v)
    /\ Len(flt.once.v) < AnalysisField(config, "maxFiles").v
    /\ flt.twice = flt.once

\* C9: for every configuration validate accepts, filterFiles returns a file
\* list and never throws.
C9_NeverFails ==
    (FilterApplied /\ flt.accepted) => flt.once.t = "return"

---------------------------------------------------------------------------
(* Properties of prepareAIData's reviewers (SpecReviewers).                *)

ReviewHandles(reviews) == {reviews[i].user.login : i \in 1..Len(reviews)}

\* C8: the derived reviewers are the distinct handles of the review list:
\* each handle of a review appears exactly once and nothing else appears;
\* [alice, bob, alice] gives the two members alice and bob.
C8_DistinctReviewers ==
    rv.phase = "prepared" =>
        /\ {rv.reviewers[i] : i \in 1..Len(rv.reviewers)} = ReviewHandles(rv.reviews)
        /\ Len(rv.reviewers) = Cardinality(ReviewHandles(rv.reviews))

\* the example of the specification has been prepared
C8_Witness ==
    /\ rv.phase = "prepared"
    /\ rv.reviews = <<Review("alice"), Review("bob"), Review("alice")>>
    /\ Len(rv.reviewers) = 2
    /\ {rv.reviewers[i] : i \in 1..Len(rv.reviewers)} = {"alice", "bob"}

---------------------------------------------------------------------------
(* Properties of parseRepoString (SpecParse).                              *)

\* s is owner/repo: one "/" with a non-empty part on each side
IsOwnerSlashRepo(s) ==
    \E i \in 2..(Len(s) - 1) :
        /\ s[i] = "/"
        /\ \A j \in 1..Len(s) : s[j] = "/" => j = i

OwnerPart(s) == SubSeq(s, 1, (CHOOSE i \in 1..Len(s) : s[i] = "/") - 1)
RepoPart(s) == SubSeq(s, (CHOOSE i \in 1..Len(s) : s[i] = "/") + 1, Len(s))

\* C7: a call with a repository string goes through if and only if the string
\* is owner/repo with both parts non-empty, and then with exactly those two
\* parts; with any other string it fails with InvalidReference and sends no
\* request.
C7_ParseIffOwnerRepo ==
    \A a \in ApiMethods :
        /\ top[a].st = "pending" =>
              /\ IsOwnerSlashRepo(repoString)
              /\ \A r \in sent :
                    r.owner = OwnerPart(repoString) /\ r.repo = RepoPart(repoString)
        /\ top[a].st = "rejected" =>
              /\ ~IsOwnerSlashRepo(repoString)
              /\ top[a].v = InvalidReference
              /\ sent = {}

---------------------------------------------------------------------------
(* Properties of findConfig (SpecFindConfig).                              *)

\* the directories from the start directory up to the root
ChainOf(start) == {SubSeq(start, 1, n) : n \in 0..Len(start)}

\* the directories of the chain that contain the marker file
MarkedOnChain == ChainOf(fc.startPath) \cap fc.markers

\* the nearest of them: the deepest one
NearestMarked ==
    CHOOSE d \in MarkedOnChain : \A e \in MarkedOnChain : Len(e) <= Len(d)

FindConfigReturned == fc.phase = "returned"

C13_ReturnsNearestOrHome ==
    FindConfigReturned =>
        fc.result = IF MarkedOnChain # {}
                    THEN PathJoin(NearestMarked, CONFIG_FILENAME)
                    ELSE PathJoin(HomeDir, CONFIG_FILENAME)

\* C13: findConfig started at any directory terminates, and what it returns
\* is the marker-file path in the nearest directory, on the chain from the
\* start directory up to the root, that contains the marker file, or the
\* marker-file path under the home directory when no directory of the chain
\* contains it.
C13_FindConfigTerminatesWithNearest ==
    /\ []C13_ReturnsNearestOrHome
    /\ <>FindConfigReturned

\* a walk that passed a directory without the marker file, returned the one
\* of a proper ancestor below which a farther ancestor has one too
C13_Witness ==
    /\ FindConfigReturned
    /\ Len(fc.startPath) = 2
    /\ fc.markers = {<<>>, SubSeq(fc.startPath, 1, 1)}
    /\ fc.result = PathJoin(SubSeq(fc.startPath, 1, 1), CONFIG_FILENAME)

===========================================================================
